---- MODULE Spec2Model ----
(***************************************************************************)
(* Model of the snake game state machine of src/main.py: Direction,        *)
(* Coordinate, Grid and Snake (construction, food placement, direction     *)
(* change, advance) and of the game loop of main().  Spec and SpecRef     *)
(* drive the snake through its public operations in every order a caller   *)
(* can produce; SpecMain runs the event loop of main().                    *)
(***************************************************************************)
EXTENDS Integers, Sequences, FiniteSets

VARIABLES
    grid,       \* Snake.grid: the Grid dataclass, [width, height]
    segments,   \* Snake.segments: list of Coordinate, head first
    direction,  \* Snake.direction
    apple,      \* Snake.apple
    pc,         \* "start": before Snake(grid); "ready": constructed;
                \* "raised": an IndexError left new_apple
    op,         \* the operation that ran last
    arg,        \* the argument of the last change_direction call
    ret,        \* what the last advance() returned
    ticks,      \* number of advance() calls so far (counted only where bounded)
    straight,   \* advance() calls that returned True since the heading last changed
    run,        \* main: the flag `run`
    lp,         \* main: "none" outside main(); "main": before Snake(...);
                \* "events": in the for loop over pygame.event.get();
                \* "draw": at win.draw and the while test; "done": after
                \* pygame.quit(); "crashed": an exception left main()
    ev,         \* main: the type of the event handled last in the current frame
    frameTicked,    \* an ADVANCE event was handled in the current frame
    frameDied,      \* an advance() of the current frame returned False
    frameQuit,      \* a QUIT event was handled in the current frame
    frameMoved,     \* segments or apple changed during the current frame
    died,       \* some advance() of the loop has returned False
    quitSeen    \* some QUIT event has been handled

snakevars == <<grid, segments, direction, apple, pc, op, arg, ret>>

loopvars == <<run, lp, ev, frameTicked, frameDied, frameQuit, frameMoved, died, quitSeen>>

vars == <<grid, segments, direction, apple, pc, op, arg, ret, ticks, straight,
          run, lp, ev, frameTicked, frameDied, frameQuit, frameMoved, died, quitSeen>>

----------------------------------------------------------------------------
\* Bounds of the model.
MaxWidth == 4
MaxHeight == 4
MaxCells == 9
MaxTicks == 3
MaxLoopTicks == 2

\* Grid(10, 10) of main().
RefSize == 10

----------------------------------------------------------------------------
\* Direction and Coordinate.

Direction == {"UP", "DOWN", "LEFT", "RIGHT"}

\* opposite as a quarter turn.
opposite_Turned(d) ==
    CASE d = "UP" -> "LEFT"
      [] d = "LEFT" -> "DOWN"
      [] d = "DOWN" -> "RIGHT"
      [] d = "RIGHT" -> "UP"

opposite(d) ==
    CASE d = "UP" -> "DOWN"
      [] d = "DOWN" -> "UP"
      [] d = "LEFT" -> "RIGHT"
      [] d = "RIGHT" -> "LEFT"

Coordinate(x, y) == [x |-> x, y |-> y]

\* Coordinate.advance with the y axis pointing up.
Coordinate_advance_Flipped(c, d) ==
    CASE d = "UP" -> [c EXCEPT !.y = c.y + 1]
      [] d = "DOWN" -> [c EXCEPT !.y = c.y - 1]
      [] d = "LEFT" -> [c EXCEPT !.x = c.x - 1]
      [] d = "RIGHT" -> [c EXCEPT !.x = c.x + 1]

Coordinate_advance(c, d) ==
    CASE d = "UP" -> [c EXCEPT !.y = c.y - 1]
      [] d = "DOWN" -> [c EXCEPT !.y = c.y + 1]
      [] d = "LEFT" -> [c EXCEPT !.x = c.x - 1]
      [] d = "RIGHT" -> [c EXCEPT !.x = c.x + 1]

----------------------------------------------------------------------------
\* Grid.

Grid(w, h) == [width |-> w, height |-> h]

\* Grid.in_bound with inclusive upper limits.
in_bound_Inclusive(g, c) ==
    /\ 0 <= c.x /\ c.x <= g.width
    /\ 0 <= c.y /\ c.y <= g.height

in_bound(g, c) ==
    /\ 0 <= c.x /\ c.x < g.width
    /\ 0 <= c.y /\ c.y < g.height

----------------------------------------------------------------------------
\* Snake.

Range(s) == {s[i] : i \in DOMAIN s}

\* The attribute values before __init__ has assigned them.
Unset == Coordinate(-1, -1)

InitialSegments == <<Coordinate(0, 2), Coordinate(0, 1), Coordinate(0, 0)>>

\* The enumeration over (width, width), as Grid.draw iterates.
coordinates_Square(g) ==
    IF g.width <= 0
    THEN <<>>
    ELSE [k \in 1..(g.width * g.width) |->
            Coordinate((k - 1) \div g.width, (k - 1) % g.width)]

\* numpy.ndindex((width, height)): every index pair, last index fastest.
coordinates(g) ==
    IF g.width <= 0 \/ g.height <= 0
    THEN <<>>
    ELSE [k \in 1..(g.width * g.height) |->
            Coordinate((k - 1) \div g.height, (k - 1) % g.height)]

\* The list `empty` that also leaves out the cell of the apple just eaten.
empty_NotOnApple(segs, g) ==
    SelectSeq(coordinates(g), LAMBDA c : c \notin Range(segs) /\ c # apple)

\* The list `empty` of new_apple.
empty(segs, g) == SelectSeq(coordinates(g), LAMBDA c : c \notin Range(segs))

\* random.choice: any element of the list; no result on an empty list.
choice(s) == {s[i] : i \in DOMAIN s}

\* Snake.__init__
Snake_init ==
    /\ pc = "start"
    /\ segments' = InitialSegments
    /\ direction' = "DOWN"
    /\ LET e == empty(InitialSegments, grid) IN
         IF e = <<>>
         THEN /\ pc' = "raised"
              /\ apple' = apple
         ELSE /\ pc' = "ready"
              /\ apple' \in choice(e)
    /\ op' = "init"
    /\ UNCHANGED <<grid, arg, ret>>

\* change_direction without the reversal test.
change_direction_Unguarded(new) ==
    /\ pc = "ready"
    /\ direction' = new
    /\ op' = "change_direction"
    /\ arg' = new
    /\ UNCHANGED <<grid, segments, apple, pc, ret>>

\* Snake.change_direction
change_direction(new) ==
    /\ pc = "ready"
    /\ direction' = IF new # opposite(direction) THEN new ELSE direction
    /\ op' = "change_direction"
    /\ arg' = new
    /\ UNCHANGED <<grid, segments, apple, pc, ret>>

\* The candidate head `new` of Snake.advance.
Candidate(segs, d) == Coordinate_advance(segs[1], d)

\* The collision test without the bounds check.
Collides_SelfOnly(g, segs, new) == new \in Range(segs)

\* The collision test without the self-collision check.
Collides_BoundsOnly(g, segs, new) == ~in_bound(g, new)

\* The collision test against the body the move would leave behind.
Collides_TailVacates(g, segs, new) ==
    ~in_bound(g, new) \/ new \in Range(SubSeq(segs, 1, Len(segs) - 1))

Collides(g, segs, new) == ~in_bound(g, new) \/ new \in Range(segs)

\* The move that never deletes the tail.
NextSegments_KeepTail(segs, new, food) == <<new>> \o segs

\* The move that deletes the first element instead of the last.
NextSegments_DropHead(segs, new, food) ==
    IF new = food
    THEN <<new>> \o segs
    ELSE <<new>> \o SubSeq(segs, 2, Len(segs))

\* Lines 94-99 of Snake.advance: the tail is deleted unless the new head is
\* on the apple, then the new head is inserted at the front.
NextSegments(segs, new, food) ==
    IF new = food
    THEN <<new>> \o segs
    ELSE <<new>> \o SubSeq(segs, 1, Len(segs) - 1)

\* Snake.advance
advance ==
    /\ pc = "ready"
    /\ LET new == Candidate(segments, direction) IN
         IF Collides(grid, segments, new)
         THEN /\ ret' = "False"
              /\ UNCHANGED <<segments, apple, pc>>
         ELSE IF new = apple /\ empty(segments, grid) = <<>>
         THEN /\ pc' = "raised"
              /\ UNCHANGED <<segments, apple, ret>>
         ELSE /\ apple' \in (IF new = apple
                              THEN choice(empty(segments, grid))
                              ELSE {apple})
              /\ segments' = NextSegments(segments, new, apple)
              /\ ret' = "True"
              /\ pc' = pc
    /\ op' = "advance"
    /\ UNCHANGED <<grid, direction, arg>>

----------------------------------------------------------------------------
\* The callers.

\* Every Grid(w, h) within the bounds; the dataclass accepts any integers.
Grids ==
    {g \in {Grid(w, h) : w \in 0..MaxWidth, h \in 0..MaxHeight} :
        g.width * g.height <= MaxCells}

StartOn(g) ==
    /\ grid = g
    /\ segments = <<>>
    /\ direction = "DOWN"
    /\ apple = Unset
    /\ pc = "start"
    /\ op = "none"
    /\ arg = "DOWN"
    /\ ret = "None"
    /\ ticks = 0
    /\ straight = 0
    /\ run = TRUE
    /\ ev = "none"
    /\ frameTicked = FALSE
    /\ frameDied = FALSE
    /\ frameQuit = FALSE
    /\ frameMoved = FALSE
    /\ died = FALSE
    /\ quitSeen = FALSE

Init == \E g \in Grids : StartOn(g) /\ lp = "none"

\* The count of True returns of advance() under one heading: a call of
\* change_direction that changes the heading starts it again.
Turned == straight' = IF direction' # direction THEN 0 ELSE straight

Advanced == straight' = IF pc' = "ready" /\ ret' = "True" THEN straight + 1 ELSE straight

Construct == Snake_init /\ UNCHANGED <<ticks, straight, loopvars>>

Steer ==
    \E new \in Direction :
        change_direction(new) /\ Turned /\ UNCHANGED <<ticks, loopvars>>

Tick == advance /\ Advanced /\ UNCHANGED <<ticks, loopvars>>

Next == Construct \/ Steer \/ Tick

Spec == Init /\ [][Next]_vars

\* The reference configuration of main(): Snake(Grid(10, 10)), a bounded
\* number of advance ticks.
InitRef == StartOn(Grid(RefSize, RefSize)) /\ lp = "none"

TickRef ==
    /\ ticks < MaxTicks
    /\ advance
    /\ Advanced
    /\ ticks' = ticks + 1
    /\ UNCHANGED loopvars

NextRef == Construct \/ Steer \/ TickRef

SpecRef == InitRef /\ [][NextRef]_vars

----------------------------------------------------------------------------
\* main(): the event loop.  pygame.event.get() hands over the events of a
\* frame; the for loop handles them one at a time, and which event comes
\* next, or that the list is exhausted, is the environment's choice.

\* The keys of KEYDOWN events: the four arrow keys and any other key.
Keys == {"K_UP", "K_DOWN", "K_LEFT", "K_RIGHT", "K_OTHER"}

KeyDirection(key) ==
    CASE key = "K_UP" -> "UP"
      [] key = "K_DOWN" -> "DOWN"
      [] key = "K_LEFT" -> "LEFT"
      [] key = "K_RIGHT" -> "RIGHT"

\* controls with an arrow key that also moves the head at once.
controls_Nudge(key) ==
    IF key = "K_OTHER"
    THEN UNCHANGED <<snakevars, straight>>
    ELSE /\ pc = "ready"
         /\ direction' = KeyDirection(key)
         /\ segments' = <<Candidate(segments, KeyDirection(key))>>
                            \o SubSeq(segments, 1, Len(segments) - 1)
         /\ op' = "change_direction"
         /\ arg' = KeyDirection(key)
         /\ UNCHANGED <<grid, apple, pc, ret, straight>>

\* controls(key, snake)
controls(key) ==
    IF key = "K_OTHER"
    THEN UNCHANGED <<snakevars, straight>>
    ELSE change_direction(KeyDirection(key)) /\ Turned

\* `run = snake.advance()` with the return value ignored while run is set.
RunAfterAdvance_Ignored(result) == run

\* `run = snake.advance()`
RunAfterAdvance(result) == result = "True"

InitMain == StartOn(Grid(RefSize, RefSize)) /\ lp = "main"

\* snake = Snake(Grid(10, 10)) and the timer set-up.
MainStart ==
    /\ lp = "main"
    /\ Snake_init
    /\ lp' = IF pc' = "ready" THEN "events" ELSE "crashed"
    /\ UNCHANGED <<ticks, straight, run, ev, frameTicked, frameDied,
                   frameQuit, frameMoved, died, quitSeen>>

\* Whether the body or the food changed within the frame.
Moved == frameMoved' = (frameMoved \/ segments' # segments \/ apple' # apple)

\* case pygame.KEYDOWN
KeyEvent ==
    \E key \in Keys :
        /\ lp = "events"
        /\ controls(key)
        /\ Moved
        /\ ev' = "KEYDOWN"
        /\ UNCHANGED <<ticks, run, lp, frameTicked, frameDied, frameQuit,
                       died, quitSeen>>

\* case pygame.QUIT
QuitEvent ==
    /\ lp = "events"
    /\ run' = FALSE
    /\ ev' = "QUIT"
    /\ frameQuit' = TRUE
    /\ quitSeen' = TRUE
    /\ UNCHANGED <<snakevars, ticks, straight, lp, frameTicked, frameDied,
                   frameMoved, died>>

\* case Event.ADVANCE
AdvanceEvent ==
    /\ lp = "events"
    /\ ticks < MaxLoopTicks
    /\ advance
    /\ Advanced
    /\ Moved
    /\ ticks' = ticks + 1
    /\ ev' = "ADVANCE"
    /\ IF pc' = "raised"
       THEN /\ lp' = "crashed"
            /\ UNCHANGED <<run, frameTicked, frameDied, died>>
       ELSE /\ lp' = lp
            /\ run' = RunAfterAdvance(ret')
            /\ frameTicked' = TRUE
            /\ frameDied' = (frameDied \/ ret' = "False")
            /\ died' = (died \/ ret' = "False")
    /\ UNCHANGED <<frameQuit, quitSeen>>

\* The for loop has handled every event of the frame.
EndEvents ==
    /\ lp = "events"
    /\ lp' = "draw"
    /\ UNCHANGED <<snakevars, ticks, straight, run, ev, frameTicked,
                   frameDied, frameQuit, frameMoved, died, quitSeen>>

\* win.draw(snake), then the while test: the next frame, or pygame.quit().
Draw ==
    /\ lp = "draw"
    /\ IF run
       THEN /\ lp' = "events"
            /\ ev' = "none"
            /\ frameTicked' = FALSE
            /\ frameDied' = FALSE
            /\ frameQuit' = FALSE
            /\ frameMoved' = FALSE
       ELSE /\ lp' = "done"
            /\ UNCHANGED <<ev, frameTicked, frameDied, frameQuit, frameMoved>>
    /\ UNCHANGED <<snakevars, ticks, straight, run, died, quitSeen>>

NextMain ==
    MainStart \/ KeyEvent \/ QuitEvent \/ AdvanceEvent \/ EndEvents \/ Draw

SpecMain == InitMain /\ [][NextMain]_vars

TypeOK ==
    /\ grid \in Grids \cup {Grid(RefSize, RefSize)}
    /\ direction \in Direction
    /\ pc \in {"start", "ready", "raised"}
    /\ op \in {"none", "init", "change_direction", "advance"}
    /\ arg \in Direction
    /\ ret \in {"None", "True", "False"}
    /\ ticks \in 0..MaxTicks
    /\ straight \in Nat
    /\ run \in BOOLEAN
    /\ lp \in {"none", "main", "events", "draw", "done", "crashed"}
    /\ ev \in {"none", "QUIT", "ADVANCE", "KEYDOWN"}
    /\ {frameTicked, frameDied, frameQuit, frameMoved, died, quitSeen} \subseteq BOOLEAN

----------------------------------------------------------------------------
\* Vocabulary of the properties, stated from the contracts and independent
\* of the operators above.

\* Position.step: one unit in direction d.
Step(p, d) ==
    [x |-> p.x + (IF d = "RIGHT" THEN 1 ELSE IF d = "LEFT" THEN -1 ELSE 0),
     y |-> p.y + (IF d = "DOWN" THEN 1 ELSE IF d = "UP" THEN -1 ELSE 0)]

\* UP <-> DOWN, LEFT <-> RIGHT.
Reverse(d) ==
    IF d = "UP" THEN "DOWN"
    ELSE IF d = "DOWN" THEN "UP"
    ELSE IF d = "LEFT" THEN "RIGHT"
    ELSE "LEFT"

\* The cells of the grid.
Cells == {[x |-> i, y |-> j] : i \in 0..(grid.width - 1), j \in 0..(grid.height - 1)}

Occupied(segs) == {segs[i] : i \in 1..Len(segs)}

HeadCell == segments[1]
TailCell == segments[Len(segments)]
NextHead == Step(HeadCell, direction)

\* The candidate head is outside the grid or on a current segment.
Fatal == NextHead \notin Cells \/ NextHead \in Occupied(segments)

\* This step is a call of advance() on a constructed snake.
AdvanceCall == pc = "ready" /\ op' = "advance"

\* This step is a call of advance() that returned true.
AdvanceTrue == AdvanceCall /\ pc' = "ready" /\ ret' = "True"

----------------------------------------------------------------------------
\* C1: advance() returns false and changes neither segments, heading nor
\* food whenever the candidate head is outside the grid or on a current
\* segment; after a false return the candidate is still fatal, so the next
\* advance() with the same heading returns false again.
C1_FatalAdvance ==
    /\ [][(AdvanceCall /\ Fatal) =>
            (ret' = "False" /\ pc' = "ready"
             /\ UNCHANGED <<segments, direction, apple>>)]_vars
    /\ []((pc = "ready" /\ op = "advance" /\ ret = "False") => Fatal)

\* A false return caused by the head running into the snake's own body.
C1_Witness ==
    /\ pc = "ready" /\ op = "advance" /\ ret = "False"
    /\ NextHead \in Cells
    /\ NextHead \in Occupied(segments)

\* C2: when advance() returns true the new segments are the candidate head
\* followed by the old segments, without the old tail unless the candidate
\* head was the food; the heading is unchanged and the food changes only
\* when the snake grows.
C2_MoveOrGrow ==
    [][AdvanceTrue =>
        /\ direction' = direction
        /\ IF NextHead = apple
           THEN /\ segments' = <<NextHead>> \o segments
                /\ Len(segments') = Len(segments) + 1
                /\ segments'[Len(segments')] = TailCell
           ELSE /\ segments' = <<NextHead>> \o SubSeq(segments, 1, Len(segments) - 1)
                /\ Len(segments') = Len(segments)
                /\ apple' = apple]_vars

\* The snake has grown and then moved on without growing.
C2_Witness ==
    /\ pc = "ready" /\ op = "advance" /\ ret = "True"
    /\ Len(segments) = 4
    /\ apple # HeadCell
    /\ HeadCell.x > 0

\* C3: the food is never on a segment, in particular right after a growth
\* move.
C3_FoodOffBody ==
    pc = "ready" => apple \notin Occupied(segments)

\* C4: advance() returns false when the candidate head is the current tail
\* cell, which can happen only once the body has at least 4 segments.
C4_TailIsFatal ==
    /\ [][(AdvanceCall /\ NextHead = TailCell) =>
            (ret' = "False" /\ UNCHANGED <<segments, apple>>)]_vars
    /\ []((pc = "ready" /\ Len(segments) < 4) =>
            \A d \in Direction : Step(HeadCell, d) # TailCell)

\* advance() has returned false on a 4-segment snake heading into its tail.
C4_Witness ==
    /\ pc = "ready" /\ op = "advance" /\ ret = "False"
    /\ Len(segments) = 4
    /\ NextHead = TailCell

\* C5: change_direction(requested) never fails; the heading becomes
\* requested unless requested is the reverse of the heading, and then it
\* stays; segments and food are unchanged.
C5_ChangeDirection ==
    [][(pc = "ready" /\ op' = "change_direction") =>
        /\ pc' = "ready"
        /\ direction' = (IF arg' = Reverse(direction) THEN direction ELSE arg')
        /\ UNCHANGED <<segments, apple>>]_vars

\* A reversal was requested and the heading stayed.
C5_Witness ==
    /\ pc = "ready" /\ op = "change_direction"
    /\ arg = Reverse(direction)
    /\ direction # "DOWN"

\* C6: whenever advance() runs, the candidate head is not the cell of the
\* second segment, whatever direction requests preceded the tick.
C6_NeverIntoNeck ==
    [][AdvanceCall => NextHead # segments[2]]_vars

\* C7: the elements of segments are pairwise distinct.
C7_Distinct ==
    pc = "ready" =>
        \A i, j \in 1..Len(segments) : i # j => segments[i] # segments[j]

\* A snake of 6 segments that has just moved.
C7_Witness ==
    /\ pc = "ready" /\ op = "advance" /\ ret = "True"
    /\ Len(segments) = 6
    /\ HeadCell.y < TailCell.y

\* C8 as stated: on every grid with positive width and height, every
\* segment of a constructed snake is inside the grid.
C8_InGridAnyPositiveGrid ==
    (pc = "ready" /\ grid.width > 0 /\ grid.height > 0) =>
        \A i \in 1..Len(segments) : segments[i] \in Cells

\* C8 amended: on every grid with positive width and height at least 3,
\* every segment of a constructed snake is inside the grid.
C8_InGrid ==
    (pc = "ready" /\ grid.width > 0 /\ grid.height >= 3) =>
        \A i \in 1..Len(segments) : segments[i] \in Cells

\* The head has moved to the last column of the bottom row.
C8_Witness ==
    /\ pc = "ready" /\ op = "advance" /\ ret = "True"
    /\ grid.height >= 3
    /\ HeadCell.x = grid.width - 1
    /\ HeadCell.y = grid.height - 1

\* The in-grid cells that no element of segs occupies.
Free(segs) == Cells \ Occupied(segs)

\* This step is a call of advance() that grew the snake.
Growth == AdvanceTrue /\ Len(segments') = Len(segments) + 1

\* C9: food placement, at construction and on each growth move, yields only
\* in-grid cells that no segment occupies when it is called, and each such
\* cell is a possible outcome.
C9_FoodPlacement ==
    /\ [][(pc = "start" /\ pc' = "ready") => apple' \in Free(segments')]_vars
    /\ [][Growth => apple' \in Free(segments)]_vars
    /\ [](pc = "start" =>
            \A c \in Free(<<[x |-> 0, y |-> 2], [x |-> 0, y |-> 1], [x |-> 0, y |-> 0]>>) :
                ENABLED (Construct /\ apple' = c))
    /\ []((pc = "ready" /\ ~Fatal /\ NextHead = apple) =>
            \A c \in Free(segments) : ENABLED (Tick /\ apple' = c))

\* Food has been placed by a growth move on a grid that is not square.
C9_Witness ==
    /\ pc = "ready" /\ op = "advance" /\ ret = "True"
    /\ Len(segments) = 5
    /\ grid.width # grid.height
    /\ apple # HeadCell

\* C10: a new snake has segments (0,2),(0,1),(0,0), heading DOWN and food
\* on none of the three; on the 10x10 grid a first advance() with food
\* elsewhere than (0,3) returns true and gives (0,3),(0,2),(0,1).
C10_FirstMove ==
    /\ []((pc = "ready" /\ op = "init") =>
            /\ segments = <<[x |-> 0, y |-> 2], [x |-> 0, y |-> 1], [x |-> 0, y |-> 0]>>
            /\ direction = "DOWN"
            /\ apple \notin {[x |-> 0, y |-> 2], [x |-> 0, y |-> 1], [x |-> 0, y |-> 0]})
    /\ [][(pc = "ready" /\ op = "init" /\ op' = "advance"
           /\ grid = [width |-> 10, height |-> 10]
           /\ apple # [x |-> 0, y |-> 3]) =>
            /\ ret' = "True"
            /\ segments' = <<[x |-> 0, y |-> 3], [x |-> 0, y |-> 2], [x |-> 0, y |-> 1]>>
            /\ Len(segments') = 3]_vars

\* The first advance() on the 10x10 grid, straight down, without growth.
C10_Witness ==
    /\ grid = [width |-> 10, height |-> 10]
    /\ pc = "ready" /\ op = "advance" /\ ret = "True" /\ ticks = 1
    /\ direction = "DOWN"
    /\ segments = <<[x |-> 0, y |-> 3], [x |-> 0, y |-> 2], [x |-> 0, y |-> 1]>>

----------------------------------------------------------------------------
\* The game loop.

\* C11: when an advance() of a frame has returned false, run is false at
\* the end of that frame and the loop ends after it, whatever events
\* followed in the frame.
C11_DeathEndsLoop ==
    /\ []((lp = "draw" /\ frameDied) => ~run)
    /\ [][(lp = "draw" /\ frameDied) => lp' = "done"]_vars

\* C12: when a quit event has been handled in a frame, run is false at the
\* end of that frame and the loop ends after it, whatever events followed
\* in the frame.
C12_QuitEndsLoop ==
    /\ []((lp = "draw" /\ frameQuit) => ~run)
    /\ [][(lp = "draw" /\ frameQuit) => lp' = "done"]_vars

\* C13: once an advance() has returned false, the loop calls neither
\* change_direction nor advance again, and segments, heading and food stay
\* as they are.
C13_DeadIsTerminal ==
    [][died => UNCHANGED <<segments, direction, apple, op, arg, ticks>>]_vars

\* C14: no Grid with a non-positive width or height exists.
C14_NoDegenerateGrid ==
    ~(grid.width <= 0 \/ grid.height <= 0)

C16_TicksOnly ==
    /\ []((lp = "draw" /\ ~frameTicked) => ~frameMoved)
    /\ [][(lp = "events" /\ lp' = "events" /\ ev' = "KEYDOWN") =>
            UNCHANGED <<segments, apple, run, ticks>>]_vars
    /\ [][(lp = "events" /\ lp' # "draw" /\ ev' = "ADVANCE") =>
            (op' = "advance" /\ ticks' = ticks + 1)]_vars
    /\ [][ticks' # ticks =>
            (lp = "events" /\ ev' = "ADVANCE" /\ ticks' = ticks + 1)]_vars
    /\ [][(lp # "main" /\ (segments' # segments \/ apple' # apple)) =>
            ticks' # ticks]_vars
    /\ [][lp = "draw" => UNCHANGED <<segments, direction, apple, ticks>>]_vars

\* A frame of key presses only, after the snake has been ticked, has ended.
C16_Witness ==
    /\ lp = "draw"
    /\ ~frameTicked
    /\ ev = "KEYDOWN" /\ op = "change_direction"
    /\ ticks = 2
    /\ direction = "UP"

----------------------------------------------------------------------------
\* C17: opposite() maps every direction to a different direction and is
\* its own inverse: UP <-> DOWN, LEFT <-> RIGHT.
C17_OppositeInvolutive ==
    \A d \in {direction, arg} :
        /\ opposite(d) \in {"UP", "DOWN", "LEFT", "RIGHT"}
        /\ opposite(d) # d
        /\ opposite(opposite(d)) = d
        /\ (d \in {"UP", "DOWN"}) = (opposite(d) \in {"UP", "DOWN"})

\* The snake heads UP and a request for DOWN has been made.
C17_Witness ==
    /\ pc = "ready" /\ op = "change_direction"
    /\ direction = "UP"
    /\ arg = "DOWN"

\* The larger of the two dimensions of the grid.
LongSide == IF grid.width >= grid.height THEN grid.width ELSE grid.height

\* C18: under one heading advance() returns true fewer than
\* max(width, height) times in a row, so without steering it returns false
\* within max(width, height) ticks.
C18_StraightRunEnds ==
    pc = "ready" => straight < LongSide

\* The longest straight run has ended with a false return.
C18_Witness ==
    /\ pc = "ready" /\ op = "advance" /\ ret = "False"
    /\ grid.height >= 3
    /\ straight = LongSide - 1

\* Cells p and q are neighbours in a row or a column.
Adjacent(p, q) ==
    \/ p.x = q.x /\ (p.y - q.y = 1 \/ q.y - p.y = 1)
    \/ p.y = q.y /\ (p.x - q.x = 1 \/ q.x - p.x = 1)

\* C19: consecutive segments are neighbours; the segment count never
\* decreases and, on a grid that contains the initial body, stays between
\* 3 and width * height.
C19_Contiguous ==
    /\ [](pc = "ready" =>
            \A i \in 1..(Len(segments) - 1) : Adjacent(segments[i], segments[i + 1]))
    /\ []((pc = "ready" /\ grid.width >= 1 /\ grid.height >= 3) =>
            (3 <= Len(segments) /\ Len(segments) <= grid.width * grid.height))
    /\ [][pc = "ready" => Len(segments') >= Len(segments)]_vars

\* A snake with a bend on each side of a straight piece.
C19_Witness ==
    /\ pc = "ready" /\ op = "advance" /\ ret = "True"
    /\ Len(segments) >= 5
    /\ segments[1].x # segments[2].x
    /\ segments[2].y # segments[3].y
    /\ segments[3].y # segments[4].y
    /\ segments[4].x # segments[5].x

\* C20: food placement on a growth move always has a free cell to choose;
\* it runs out of cells only during construction, when the initial body
\* covers every cell of the grid.
C20_PlacementNeverExhausted ==
    /\ []((pc = "ready" /\ ~Fatal /\ NextHead = apple) => Free(segments) # {})
    /\ [][AdvanceCall => pc' = "ready"]_vars
    /\ [](pc = "raised" =>
            (op = "init" /\ Cells \subseteq {[x |-> 0, y |-> 2], [x |-> 0, y |-> 1], [x |-> 0, y |-> 0]}))

\* The snake has grown to fill the whole grid.
C20_Witness ==
    /\ pc = "ready" /\ op = "advance" /\ ret = "True"
    /\ grid.height >= 3
    /\ Len(segments) = grid.width * grid.height

====
